---- MODULE Spec2Model ----
(***************************************************************************)
(* CoolRide Telegram bot (src/main.py): the per-user conversation state    *)
(* machine held in user_sessions, driven by /start, /help, inline-keyboard *)
(* callbacks and free-text messages, with the geocoder as an external      *)
(* service whose answer is chosen nondeterministically.                    *)
(*                                                                         *)
(* A Python str is a sequence of one-character strings, so that lower(),   *)
(* strip(), split(), replace(), startswith() and `in` are computed the way *)
(* the interpreter computes them.  A Python dict is a function whose       *)
(* DOMAIN is the set of keys present.  A float is an integer number of     *)
(* tenths (1.3 is 13).                                                     *)
(***************************************************************************)
EXTENDS Integers, Sequences, FiniteSets, TLC

VARIABLES
    user_sessions,  \* main.py:21  dict: user id (str) -> session dict
    event,          \* the update handled last: [handler, user, payload]
    before,         \* user_sessions as it was when that update arrived
    sent,           \* the messages sent (or edited in) while handling it
    geocoded,       \* the geocode_location calls made while handling it
    raised,         \* the exception the handler ended with, "none" if it returned
    pressed,        \* the button of the callback query handled last
    shown,          \* per user, the place buttons of the menus shown to them
    last_prompt,    \* per user, what the last message sent to them asked for
    request,        \* the geocoder request a handler is waiting on
    handled         \* number of updates handled so far

vars == <<user_sessions, event, before, sent, geocoded, raised, pressed, shown,
          last_prompt, request, handled>>

\* Number of updates a run handles.
MaxEvents == 4

-----------------------------------------------------------------------------
(* Python str operations *)

UpperLetters == <<"A","B","C","D","E","F","G","H","I","J","K","L","M","N","O","P","Q","R","S","T","U","V","W","X","Y","Z">>
LowerLetters == <<"a","b","c","d","e","f","g","h","i","j","k","l","m","n","o","p","q","r","s","t","u","v","w","x","y","z">>
Digits == <<"0","1","2","3","4","5","6","7","8","9">>
Whitespace == {" ", "\t", "\n", "\r"}

IndexIn(c, alphabet) == CHOOSE i \in 1..Len(alphabet) : alphabet[i] = c
IsIn(c, alphabet) == \E i \in 1..Len(alphabet) : alphabet[i] = c

LowerChar(c) == IF IsIn(c, UpperLetters) THEN LowerLetters[IndexIn(c, UpperLetters)] ELSE c
UpperChar(c) == IF IsIn(c, LowerLetters) THEN UpperLetters[IndexIn(c, LowerLetters)] ELSE c
IsLetter(c) == IsIn(c, UpperLetters) \/ IsIn(c, LowerLetters)

\* str.lower()
lower(s) == [i \in 1..Len(s) |-> LowerChar(s[i])]

\* str.title(): the first letter of every run of letters upper-cased, the rest lower-cased
title(s) ==
    [i \in 1..Len(s) |->
        IF i = 1 \/ ~IsLetter(s[i - 1]) THEN UpperChar(s[i]) ELSE LowerChar(s[i])]

\* str.strip(): leading and trailing whitespace removed
strip(s) ==
    LET keep == {i \in 1..Len(s) : s[i] \notin Whitespace}
    IN  IF keep = {} THEN <<>>
        ELSE LET lo == CHOOSE i \in keep : \A j \in keep : i <= j
                 hi == CHOOSE i \in keep : \A j \in keep : i >= j
             IN  SubSeq(s, lo, hi)

\* s[i:].startswith(p), 1-based
MatchAt(s, p, i) ==
    /\ i >= 1
    /\ i + Len(p) - 1 <= Len(s)
    /\ SubSeq(s, i, i + Len(p) - 1) = p

\* s.startswith(p)
startswith(s, p) == MatchAt(s, p, 1)

\* s.find(p): the lowest 1-based index at which p occurs in s, 0 when it does not
find(s, p) ==
    LET hits == {i \in 1..(Len(s) - Len(p) + 1) : MatchAt(s, p, i)}
    IN  IF hits = {} THEN 0 ELSE CHOOSE i \in hits : \A j \in hits : i <= j

\* p in s
contains(s, p) == find(s, p) # 0

\* s.split(sep): s cut at every occurrence of sep, left to right
RECURSIVE split(_, _)
split(s, sep) ==
    LET i == find(s, sep)
    IN  IF i = 0 THEN <<s>>
        ELSE <<SubSeq(s, 1, i - 1)>> \o split(SubSeq(s, i + Len(sep), Len(s)), sep)

\* s.replace(old, new): every occurrence of old, left to right, replaced by new
RECURSIVE replace(_, _, _)
replace(s, old, new) ==
    LET i == find(s, old)
    IN  IF i = 0 THEN s
        ELSE SubSeq(s, 1, i - 1) \o new \o replace(SubSeq(s, i + Len(old), Len(s)), old, new)

IsDigits(s) == Len(s) > 0 /\ \A i \in 1..Len(s) : IsIn(s[i], Digits)
DigitValue(c) == IndexIn(c, Digits) - 1

\* int(s) for a string of decimal digits, with or without a leading minus sign
RECURSIVE int(_)
int(s) ==
    IF Len(s) = 0 THEN 0
    ELSE IF s[1] = "-" THEN 0 - int(SubSeq(s, 2, Len(s)))
    ELSE 10 * int(SubSeq(s, 1, Len(s) - 1)) + DigitValue(s[Len(s)])

\* seq[idx] is defined: Python counts from 0, and from -1 backwards from the end
HasIndex(seq, idx) == 0 - Len(seq) <= idx /\ idx < Len(seq)

\* seq[idx]
Item(seq, idx) == IF idx >= 0 THEN seq[idx + 1] ELSE seq[Len(seq) + idx + 1]

\* str(n) for a natural number n
RECURSIVE str(_)
str(n) == IF n < 10 THEN <<Digits[n + 1]>> ELSE str(n \div 10) \o <<Digits[(n % 10) + 1]>>

\* float(s) succeeds: digits with at most one decimal point and at least one digit
IsFloatText(s) ==
    LET dot == find(s, <<".">>)
        whole == IF dot = 0 THEN s ELSE SubSeq(s, 1, dot - 1)
        frac == IF dot = 0 THEN <<>> ELSE SubSeq(s, dot + 1, Len(s))
    IN  /\ Len(whole) + Len(frac) > 0
        /\ \A i \in 1..Len(whole) : IsIn(whole[i], Digits)
        /\ \A i \in 1..Len(frac) : IsIn(frac[i], Digits)

\* float(s), in tenths; the texts of GeocoderResponses carry one significant decimal
float(s) ==
    LET dot == find(s, <<".">>)
        whole == IF dot = 0 THEN s ELSE SubSeq(s, 1, dot - 1)
        frac == IF dot = 0 THEN <<>> ELSE SubSeq(s, dot + 1, Len(s))
    IN  10 * int(whole) + (IF Len(frac) = 0 THEN 0 ELSE DigitValue(frac[1]))

\* f"{x}" for a float x held in tenths: repr(), which always carries a decimal
FormatFloat(x) == str(x \div 10) \o <<".">> \o str(x % 10)

\* dict operations
EmptyDict == [k \in {} |-> TRUE]
Get(d, k, default) == IF k \in DOMAIN d THEN d[k] ELSE default
Put(d, k, v) == [x \in DOMAIN d \cup {k} |-> IF x = k THEN v ELSE d[x]]
Truthy(d, k) == k \in DOMAIN d /\ d[k] = TRUE

-----------------------------------------------------------------------------
(* Module-level data *)

\* main.py:18, the default of APP_URL
APP_URL == <<"h","t","t","p","s",":","/","/","t","h","e","r","m","a","l","-","o","p","t","i","m","i","z","e","r","s","-","c","o","o","l","r","i","d","e","-","e","n","g","i","n","e",".","h","f",".","s","p","a","c","e">>

\* main.py:23-39
FALLBACK_PLACES ==
    (<<"n","a","t","u","r","e">> :> <<
        [name |-> <<"B","o","t","a","n","i","c"," ","G","a","r","d","e","n","s">>, reason |-> <<"U","N","E","S","C","O"," ","s","i","t","e"," ","w","i","t","h"," ","l","u","s","h"," ","g","r","e","e","n","e","r","y">>],
        [name |-> <<"E","a","s","t"," ","C","o","a","s","t"," ","P","a","r","k">>, reason |-> <<"B","e","a","c","h","s","i","d","e"," ","c","y","c","l","i","n","g"," ","w","i","t","h"," ","s","e","a"," ","b","r","e","e","z","e">>],
        [name |-> <<"P","u","n","g","g","o","l"," ","W","a","t","e","r","w","a","y">>, reason |-> <<"P","e","a","c","e","f","u","l"," ","w","a","t","e","r","f","r","o","n","t"," ","t","r","a","i","l">>] >>)
    @@
    (<<"f","o","o","d">> :> <<
        [name |-> <<"T","i","o","n","g"," ","B","a","h","r","u">>, reason |-> <<"H","i","p"," ","c","a","f","e","s"," ","i","n"," ","h","e","r","i","t","a","g","e"," ","s","h","o","p","h","o","u","s","e","s">>],
        [name |-> <<"J","o","o"," ","C","h","i","a","t">>, reason |-> <<"P","e","r","a","n","a","k","a","n"," ","f","o","o","d"," ","a","n","d"," ","c","o","l","o","r","f","u","l"," ","s","t","r","e","e","t","s">>],
        [name |-> <<"K","a","m","p","o","n","g"," ","G","l","a","m">>, reason |-> <<"M","i","d","d","l","e"," ","E","a","s","t","e","r","n"," ","e","a","t","s"," ","n","e","a","r"," ","H","a","j","i"," ","L","a","n","e">>] >>)
    @@
    (<<"v","i","e","w","s">> :> <<
        [name |-> <<"M","a","r","i","n","a"," ","B","a","y"," ","S","a","n","d","s">>, reason |-> <<"I","c","o","n","i","c"," ","s","k","y","l","i","n","e"," ","v","i","e","w","s">>],
        [name |-> <<"G","a","r","d","e","n","s"," ","b","y"," ","t","h","e"," ","B","a","y">>, reason |-> <<"S","t","u","n","n","i","n","g"," ","S","u","p","e","r","t","r","e","e","s">>],
        [name |-> <<"H","e","n","d","e","r","s","o","n"," ","W","a","v","e","s">>, reason |-> <<"H","i","g","h","e","s","t"," ","p","e","d","e","s","t","r","i","a","n"," ","b","r","i","d","g","e">>] >>)

-----------------------------------------------------------------------------
(* The geocoder *)

\* Python None; geocode_location returns None or a (lat, lon) tuple
None == <<>>

\* What the request of main.py:44-45 can bring back: an exception (timeout,
\* network error, a body that is not JSON), an empty list, or a list whose
\* first match carries lat and lon as text.
GeocoderResponses ==
    { [raised |-> TRUE,  data |-> <<>>],
      [raised |-> FALSE, data |-> <<>>],
      [raised |-> FALSE, data |-> <<[lat |-> <<"N","/","A">>, lon |-> <<"1","0","3",".","8">>]>>],
      [raised |-> FALSE, data |-> <<[lat |-> <<"1",".","3","0">>, lon |-> <<"1","0","3",".","8">>]>>],
      [raised |-> FALSE, data |-> <<[lat |-> <<"0">>, lon |-> <<"0",".","0">>],
                                    [lat |-> <<"1",".","3","0">>, lon |-> <<"1","0","3",".","8">>]>>] }

\* main.py:41-50, given the response the request brings back
geocode_location(place_name, response) ==
    IF response.raised THEN None
    ELSE IF Len(response.data) = 0 THEN None
    ELSE IF ~IsFloatText(response.data[1].lat) \/ ~IsFloatText(response.data[1].lon) THEN None
    ELSE <<float(response.data[1].lat), float(response.data[1].lon)>>

\* `if start_coords and end_coords`: None is false, a 2-tuple is true whatever it holds
BothFound(start_coords, end_coords) == start_coords # None /\ end_coords # None

\* RouteUrl with the two pairs exchanged
RouteUrlSwapped(start_coords, end_coords, user_id) ==
    APP_URL \o <<"?","s","t","a","r","t","=">> \o FormatFloat(end_coords[1]) \o <<",">> \o FormatFloat(end_coords[2])
            \o <<"&","e","n","d","=">> \o FormatFloat(start_coords[1]) \o <<",">> \o FormatFloat(start_coords[2])
            \o <<"&","t","g","=">> \o user_id

\* RouteUrl with end= written before start=
RouteUrlEndFirst(start_coords, end_coords, user_id) ==
    APP_URL \o <<"?","e","n","d","=">> \o FormatFloat(end_coords[1]) \o <<",">> \o FormatFloat(end_coords[2])
            \o <<"&","s","t","a","r","t","=">> \o FormatFloat(start_coords[1]) \o <<",">> \o FormatFloat(start_coords[2])
            \o <<"&","t","g","=">> \o user_id

\* main.py:151 and main.py:173
RouteUrl(start_coords, end_coords, user_id) ==
    APP_URL \o <<"?","s","t","a","r","t","=">> \o FormatFloat(start_coords[1]) \o <<",">> \o FormatFloat(start_coords[2])
            \o <<"&","e","n","d","=">> \o FormatFloat(end_coords[1]) \o <<",">> \o FormatFloat(end_coords[2])
            \o <<"&","t","g","=">> \o user_id

-----------------------------------------------------------------------------
(* Messages *)

Button(label, data) == [text |-> label, callback_data |-> data]

\* One outgoing call: reply_text (a new message) or edit_message_text (the
\* message that carried the pressed button is rewritten).  text holds the
\* values interpolated into the message, keyboard the rows of buttons.
Message(method, kind, text, keyboard) ==
    [method |-> method, kind |-> kind, text |-> text, keyboard |-> keyboard]

\* main.py:58-68
WelcomeMenu(username) ==
    Message("reply_text", "welcome", <<username>>,
        << <<Button(<<"I"," ","k","n","o","w"," ","w","h","e","r","e"," ","I","'","m"," ","g","o","i","n","g">>, <<"m","o","d","e","_","d","i","r","e","c","t">>)>>,
           <<Button(<<"R","e","c","o","m","m","e","n","d"," ","m","e"," ","a"," ","p","l","a","c","e">>, <<"m","o","d","e","_","r","e","c","o","m","m","e","n","d">>)>> >>)

\* main.py:71-76
HelpText == Message("reply_text", "help", <<>>, <<>>)

\* main.py:89-92
DirectPrompt == Message("edit_message_text", "direct_prompt", <<>>, <<>>)

\* main.py:95-101
MoodMenu ==
    Message("edit_message_text", "mood_menu", <<>>,
        << <<Button(<<"N","a","t","u","r","e">>, <<"m","o","o","d","_","n","a","t","u","r","e">>), Button(<<"F","o","o","d">>, <<"m","o","o","d","_","f","o","o","d">>)>>,
           <<Button(<<"V","i","e","w","s">>, <<"m","o","o","d","_","v","i","e","w","s">>)>> >>)

\* main.py:106-112
DistanceMenu(mood) ==
    Message("edit_message_text", "distance_menu", <<title(mood)>>,
        << <<Button(<<"1","0","-","2","0"," ","m","i","n">>, <<"d","i","s","t","_","s","h","o","r","t">>)>>,
           <<Button(<<"2","0","-","4","0"," ","m","i","n">>, <<"d","i","s","t","_","m","e","d","i","u","m">>)>>,
           <<Button(<<"4","0","+"," ","m","i","n">>, <<"d","i","s","t","_","l","o","n","g">>)>> >>)

\* main.py:119-121; enumerate() counts from 0, the text numbers from 1
PlaceMenu(recs) ==
    Message("edit_message_text", "top_picks",
        [i \in 1..Len(recs) |-> <<str(i), recs[i].name, recs[i].reason>>],
        [i \in 1..Len(recs) |-> <<Button(recs[i].name, <<"p","l","a","c","e","_">> \o str(i - 1))>>])

\* main.py:129-132
OriginPrompt(name) == Message("edit_message_text", "origin_prompt", <<name>>, <<>>)

\* main.py:145 and main.py:168
FindingLocations == Message("reply_text", "finding", <<>>, <<>>)

\* main.py:152-155 and main.py:174-177
RouteReady(origin, destination, url) ==
    Message("reply_text", "route_ready", <<origin, destination, url>>, <<>>)

\* main.py:158
Retry == Message("reply_text", "retry", <<>>, <<>>)

\* main.py:180
Hint == Message("reply_text", "hint", <<>>, <<>>)

-----------------------------------------------------------------------------
(* Updates the transport can deliver *)

\* update.effective_user: Telegram's numeric id, an optional username, a first name
Users ==
    { [id |-> 7,  username |-> <<"a","r","i">>, first_name |-> <<"A","r","i">>],
      [id |-> 42, username |-> <<>>,     first_name |-> <<>>] }

UserIds == {str(user.id) : user \in Users}

Moods == DOMAIN FALLBACK_PLACES

\* The callback_data of the buttons of a message's keyboard
ButtonsOf(message) ==
    UNION { {message.keyboard[r][c].callback_data : c \in 1..Len(message.keyboard[r])} :
            r \in 1..Len(message.keyboard) }

\* The callback_data of every button the bot puts on a keyboard.  A keyboard
\* stays in the chat when the session it was made for is reset, and when the
\* process restarts, which empties user_sessions (main.py:21) but no chat; so
\* any of them can arrive in any session state (main.py:84-85 and the
\* defaults of main.py:115 and main.py:125 provide for it).
KeyboardData ==
    UNION { ButtonsOf(WelcomeMenu(<<>>)), ButtonsOf(MoodMenu), ButtonsOf(DistanceMenu(<<>>)) }
    \cup UNION { ButtonsOf(PlaceMenu(FALLBACK_PLACES[m])) : m \in Moods }

\* callback_data comes back from the client and is not checked against the
\* keyboard it is said to come from; main.py:124 parses whatever arrives.
\* Two place selections no keyboard of the bot carries: an index past the
\* longest list and an index below 0.
OutOfRangeData == {<<"p","l","a","c","e","_","3">>, <<"p","l","a","c","e","_","-","1">>}

\* query.data (main.py:82)
CallbackData == KeyboardData \cup OutOfRangeData

\* The buttons of a message's keyboard
KeysOf(message) ==
    UNION { {message.keyboard[r][c] : c \in 1..Len(message.keyboard[r])} :
            r \in 1..Len(message.keyboard) }

\* The buttons a callback query can come from: those of the bot's keyboards,
\* and for the data no keyboard carries a button without a label
Buttons ==
    UNION { KeysOf(WelcomeMenu(<<>>)), KeysOf(MoodMenu), KeysOf(DistanceMenu(<<>>)) }
    \cup UNION { KeysOf(PlaceMenu(FALLBACK_PLACES[m])) : m \in Moods }
    \cup { Button(<<>>, data) : data \in OutOfRangeData }

\* Place names a user types
TypedPlaces == {<<"B","i","s","h","a","n">>, <<"S","e","n","t","o","s","a">>, <<"T","o","a"," ","P","a","y","o","h">>}

\* "from X to Y" for the typed places
RouteTexts == {<<"F","r","o","m"," ">> \o x \o <<" ","t","o"," ">> \o y : x, y \in TypedPlaces}

\* Texts the MessageHandler of main.py:194 passes on (none starts with "/")
Texts ==
    {<<"h","i">>, <<" "," ","H","e","y"," ","\n">>, <<"S","T","A","R","T">>}
    \cup {<<"h","i"," ","t","h","e","r","e">>, <<"O","r","c","h","a","r","d"," ","R","o","a","d">>, <<"f","r","o","m"," ","B","i","s","h","a","n">>, <<"B","i","s","h","a","n"," ","t","o"," ","B","e","d","o","k">>,
          <<"f","r","o","m"," ","B","i","s","h","a","n"," ","t","o"," ">>, <<"t","o"," ","B","i","s","h","a","n"," ","f","r","o","m">>}
    \cup TypedPlaces
    \cup RouteTexts

-----------------------------------------------------------------------------
(* Handlers: each yields the session store, the messages sent and the *)
(* geocoder calls made.                                                *)

Outcome(sessions, messages, calls) ==
    [sessions |-> sessions, sent |-> messages, geocoded |-> calls, raised |-> "none"]

\* A handler left by an exception: what it had written and sent stays
Raises(sessions, messages, calls, exception) ==
    [sessions |-> sessions, sent |-> messages, geocoded |-> calls, raised |-> exception]

GeocoderCall(place_name, result) == [place_name |-> place_name, result |-> result]

\* main.py:56
Username(user) ==
    IF Len(user.username) > 0 THEN user.username
    ELSE IF Len(user.first_name) > 0 THEN user.first_name
    ELSE <<"u","s","e","r","_">> \o str(user.id)

\* start_command rebinding the whole store: user_sessions = {user_id: {}}
start_commandDropsOthers(sessions, user) ==
    LET user_id == str(user.id)
    IN  Outcome(Put(EmptyDict, user_id, EmptyDict), <<WelcomeMenu(Username(user))>>, <<>>)

\* main.py:52-68
start_command(sessions, user) ==
    LET user_id == str(user.id)
    IN  Outcome(Put(sessions, user_id, EmptyDict), <<WelcomeMenu(Username(user))>>, <<>>)

\* main.py:70-76
help_command(sessions, user) == Outcome(sessions, <<HelpText>>, <<>>)

\* main.py:87-92
SelectDirect(sessions, user_id) ==
    Outcome(Put(sessions, user_id, [mode |-> <<"d","i","r","e","c","t">>]), <<DirectPrompt>>, <<>>)

\* main.py:94-101
SelectRecommend(sessions, user_id) == Outcome(sessions, <<MoodMenu>>, <<>>)

\* main.py:103-112
SelectMood(sessions, user_id, data) ==
    LET mood == replace(data, <<"m","o","o","d","_">>, <<>>)
    IN  Outcome(Put(sessions, user_id, Put(sessions[user_id], "mood", mood)),
                <<DistanceMenu(mood)>>, <<>>)

\* SelectDistance without the look-up of the recorded mood
SelectDistanceAlwaysNature(sessions, user_id, data) ==
    LET recs == FALLBACK_PLACES[<<"n","a","t","u","r","e">>]
    IN  Outcome(Put(sessions, user_id, Put(sessions[user_id], "recommendations", recs)),
                <<PlaceMenu(recs)>>, <<>>)

\* SelectDistance keeping the bucket chosen in the session
SelectDistanceRecords(sessions, user_id, data) ==
    LET mood == Get(Get(sessions, user_id, EmptyDict), "mood", <<"n","a","t","u","r","e">>)
        recs == Get(FALLBACK_PLACES, mood, FALLBACK_PLACES[<<"n","a","t","u","r","e">>])
    IN  Outcome(Put(sessions, user_id,
                    Put(Put(sessions[user_id], "distance", replace(data, <<"d","i","s","t","_">>, <<>>)),
                        "recommendations", recs)),
                <<PlaceMenu(recs)>>, <<>>)

\* main.py:114-121
SelectDistance(sessions, user_id, data) ==
    LET mood == Get(Get(sessions, user_id, EmptyDict), "mood", <<"n","a","t","u","r","e">>)
        recs == Get(FALLBACK_PLACES, mood, FALLBACK_PLACES[<<"n","a","t","u","r","e">>])
    IN  Outcome(Put(sessions, user_id, Put(sessions[user_id], "recommendations", recs)),
                <<PlaceMenu(recs)>>, <<>>)

\* SelectPlace reading recs[idx - 1]
SelectPlaceOffByOne(sessions, user_id, data) ==
    LET idx == int(replace(data, <<"p","l","a","c","e","_">>, <<>>))
        recs == Get(Get(sessions, user_id, EmptyDict), "recommendations", <<>>)
    IN  IF idx < Len(recs)
        THEN IF HasIndex(recs, idx - 1)
             THEN Outcome(
                    Put(sessions, user_id,
                        Put(Put(sessions[user_id], "destination", Item(recs, idx - 1).name),
                            "awaiting_start", TRUE)),
                    <<OriginPrompt(Item(recs, idx - 1).name)>>, <<>>)
             ELSE Raises(sessions, <<>>, <<>>, "IndexError")
        ELSE Outcome(sessions, <<>>, <<>>)

\* SelectPlace setting awaiting_start whether the index is in the list or not
SelectPlaceAlwaysAwaits(sessions, user_id, data) ==
    LET idx == int(replace(data, <<"p","l","a","c","e","_">>, <<>>))
        recs == Get(Get(sessions, user_id, EmptyDict), "recommendations", <<>>)
    IN  IF idx < Len(recs)
        THEN IF HasIndex(recs, idx)
             THEN Outcome(
                    Put(sessions, user_id,
                        Put(Put(sessions[user_id], "destination", Item(recs, idx).name),
                            "awaiting_start", TRUE)),
                    <<OriginPrompt(Item(recs, idx).name)>>, <<>>)
             ELSE Raises(sessions, <<>>, <<>>, "IndexError")
        ELSE Outcome(Put(sessions, user_id, Put(sessions[user_id], "awaiting_start", TRUE)),
                     <<>>, <<>>)

\* main.py:123-132; the test of main.py:126 bounds idx from above only
SelectPlace(sessions, user_id, data) ==
    LET idx == int(replace(data, <<"p","l","a","c","e","_">>, <<>>))
        recs == Get(Get(sessions, user_id, EmptyDict), "recommendations", <<>>)
    IN  IF idx < Len(recs)
        THEN IF HasIndex(recs, idx)
             THEN Outcome(
                    Put(sessions, user_id,
                        Put(Put(sessions[user_id], "destination", Item(recs, idx).name),
                            "awaiting_start", TRUE)),
                    <<OriginPrompt(Item(recs, idx).name)>>, <<>>)
             ELSE Raises(sessions, <<>>, <<>>, "IndexError")
        ELSE Outcome(sessions, <<>>, <<>>)

\* main.py:78-132
handle_callback(sessions, user, data) ==
    LET user_id == str(user.id)
        known == IF user_id \notin DOMAIN sessions
                 THEN Put(sessions, user_id, EmptyDict) ELSE sessions
    IN  IF data = <<"m","o","d","e","_","d","i","r","e","c","t">> THEN SelectDirect(known, user_id)
        ELSE IF data = <<"m","o","d","e","_","r","e","c","o","m","m","e","n","d">> THEN SelectRecommend(known, user_id)
        ELSE IF startswith(data, <<"m","o","o","d","_">>) THEN SelectMood(known, user_id, data)
        ELSE IF startswith(data, <<"d","i","s","t","_">>) THEN SelectDistance(known, user_id, data)
        ELSE IF startswith(data, <<"p","l","a","c","e","_">>) THEN SelectPlace(known, user_id, data)
        ELSE Outcome(known, <<>>, <<>>)

\* main.py:139, the list
Greetings == {<<"h","i">>, <<"h","e","l","l","o">>, <<"h","e","y">>, <<"s","t","a","r","t">>}

\* IsGreeting without strip()
IsGreetingUnstripped(text) == lower(text) \in Greetings

\* main.py:139
IsGreeting(text) == strip(lower(text)) \in Greetings

\* CaptureOrigin resetting the session whether or not the places were found
CaptureOriginAlwaysResets(sessions, user_id, text, response1, response2) ==
    LET session == Get(sessions, user_id, EmptyDict)
        dest == Get(session, "destination", <<>>)
        start_coords == geocode_location(text, response1)
        end_coords == geocode_location(dest, response2)
        calls == <<GeocoderCall(text, start_coords), GeocoderCall(dest, end_coords)>>
    IN  IF BothFound(start_coords, end_coords)
        THEN Outcome(Put(sessions, user_id, EmptyDict),
                     <<FindingLocations,
                       RouteReady(text, dest, RouteUrl(start_coords, end_coords, user_id))>>,
                     calls)
        ELSE Outcome(Put(sessions, user_id, EmptyDict), <<FindingLocations, Retry>>, calls)

\* main.py:143-159
CaptureOrigin(sessions, user_id, text, response1, response2) ==
    LET session == Get(sessions, user_id, EmptyDict)
        dest == Get(session, "destination", <<>>)
        start_coords == geocode_location(text, response1)
        end_coords == geocode_location(dest, response2)
        calls == <<GeocoderCall(text, start_coords), GeocoderCall(dest, end_coords)>>
    IN  IF BothFound(start_coords, end_coords)
        THEN Outcome(Put(sessions, user_id, EmptyDict),
                     <<FindingLocations,
                       RouteReady(text, dest, RouteUrl(start_coords, end_coords, user_id))>>,
                     calls)
        ELSE Outcome(sessions, <<FindingLocations, Retry>>, calls)

\* LooksLikeRoute with `or` for `and`
LooksLikeRouteEither(text) == contains(lower(text), <<"f","r","o","m">>) \/ contains(lower(text), <<"t","o">>)

\* main.py:162
LooksLikeRoute(text) == contains(lower(text), <<"f","r","o","m">>) /\ contains(lower(text), <<"t","o">>)

\* main.py:163-165: the (start, end) pair cut out of the text
RouteParts(text) ==
    LET parts == split(lower(text), <<"t","o">>)
        start == strip(replace(parts[1], <<"f","r","o","m">>, <<>>))
        end == IF Len(parts) > 1 THEN strip(parts[2]) ELSE <<>>
    IN  <<start, end>>

\* The tests of main.py:139 and main.py:162-165 on each text, evaluated once
Analysed ==
    [text \in Texts |->
        [greeting |-> IsGreeting(text), route |-> LooksLikeRoute(text),
         parts |-> RouteParts(text)]]

\* DirectRoute keeping the destination typed when a place is not found
DirectRouteKeepsProgress(sessions, user_id, text, response1, response2) ==
    LET start == Analysed[text].parts[1]
        end == Analysed[text].parts[2]
        start_coords == geocode_location(start, response1)
        end_coords == geocode_location(end, response2)
        calls == <<GeocoderCall(start, start_coords), GeocoderCall(end, end_coords)>>
    IN  IF Len(start) > 0 /\ Len(end) > 0
        THEN IF BothFound(start_coords, end_coords)
             THEN Outcome(sessions,
                          <<FindingLocations,
                            RouteReady(start, end, RouteUrl(start_coords, end_coords, user_id))>>,
                          calls)
             ELSE Outcome(Put(sessions, user_id,
                              Put(Get(sessions, user_id, EmptyDict), "destination", end)),
                          <<FindingLocations, Hint>>, calls)
        ELSE Outcome(sessions, <<Hint>>, <<>>)

\* main.py:162-180
DirectRoute(sessions, user_id, text, response1, response2) ==
    LET start == Analysed[text].parts[1]
        end == Analysed[text].parts[2]
        start_coords == geocode_location(start, response1)
        end_coords == geocode_location(end, response2)
        calls == <<GeocoderCall(start, start_coords), GeocoderCall(end, end_coords)>>
    IN  IF Len(start) > 0 /\ Len(end) > 0
        THEN IF BothFound(start_coords, end_coords)
             THEN Outcome(sessions,
                          <<FindingLocations,
                            RouteReady(start, end, RouteUrl(start_coords, end_coords, user_id))>>,
                          calls)
             ELSE Outcome(sessions, <<FindingLocations, Hint>>, calls)
        ELSE Outcome(sessions, <<Hint>>, <<>>)

\* main.py:143-148 and main.py:162-170: handling the text calls the geocoder
Geocodes(sessions, user_id, text) ==
    /\ ~Analysed[text].greeting
    /\ \/ Truthy(Get(sessions, user_id, EmptyDict), "awaiting_start")
       \/ /\ Analysed[text].route
          /\ Len(Analysed[text].parts[1]) > 0
          /\ Len(Analysed[text].parts[2]) > 0

\* main.py:134-180
handle_message(sessions, user, text, response1, response2) ==
    LET user_id == str(user.id)
        session == Get(sessions, user_id, EmptyDict)
    IN  IF Analysed[text].greeting THEN start_command(sessions, user)
        ELSE IF Truthy(session, "awaiting_start")
             THEN CaptureOrigin(sessions, user_id, text, response1, response2)
        ELSE IF Analysed[text].route
             THEN DirectRoute(sessions, user_id, text, response1, response2)
        ELSE Outcome(sessions, <<Hint>>, <<>>)

-----------------------------------------------------------------------------
(* The state machine *)

NoEvent == [handler |-> "none", user |-> 0, payload |-> <<>>]
NoButton == Button(<<>>, <<>>)
NoUser == [id |-> 0, username |-> <<>>, first_name |-> <<>>]

\* No geocoder request is outstanding.  call is 1 while the first
\* geocode_location call of a handler waits for its answer, 2 while the second
\* does; answers holds the responses received so far.
NoRequest == [call |-> 0, user |-> NoUser, text |-> <<>>, answers |-> <<>>]

Init ==
    /\ user_sessions = EmptyDict
    /\ event = NoEvent
    /\ before = EmptyDict
    /\ sent = <<>>
    /\ geocoded = <<>>
    /\ raised = "none"
    /\ pressed = NoButton
    /\ shown = [u \in UserIds |-> {}]
    /\ last_prompt = [u \in UserIds |-> "other"]
    /\ request = NoRequest
    /\ handled = 0

\* Idle for an application that takes up updates while a handler is running
IdleConcurrent == TRUE

\* Application.builder().token(TOKEN).build() (main.py:190) leaves
\* concurrent_updates off: run_polling (main.py:197) hands the updates to the
\* handlers one at a time, and the next one is taken up when the handler of
\* the last has returned or raised (the application logs the exception and
\* goes on).
Idle == event = NoEvent

\* Handle is one update handled from arrival to the handler's last statement.
Handle(handler, user, payload, outcome) ==
    /\ Idle
    /\ handled < MaxEvents
    /\ handled' = handled + 1
    /\ event' = [handler |-> handler, user |-> user.id, payload |-> payload]
    /\ before' = user_sessions
    /\ user_sessions' = outcome.sessions
    /\ sent' = outcome.sent
    /\ geocoded' = outcome.geocoded
    /\ raised' = outcome.raised
    /\ UNCHANGED <<shown, last_prompt, request>>

\* main.py:191
StartCommand ==
    \E user \in Users :
        /\ Handle("start_command", user, <<>>, start_command(user_sessions, user))
        /\ pressed' = NoButton

\* main.py:192
HelpCommand ==
    \E user \in Users :
        /\ Handle("help_command", user, <<>>, help_command(user_sessions, user))
        /\ pressed' = NoButton

\* main.py:193
CallbackQuery ==
    \E user \in Users, button \in Buttons :
        /\ Handle("handle_callback", user, button.callback_data,
                  handle_callback(user_sessions, user, button.callback_data))
        /\ pressed' = button

\* The responses to draw from for a text: the geocoder answers only when it is
\* asked (main.py:147-148, main.py:169-170)
ResponsesFor(user, text) ==
    IF Geocodes(user_sessions, str(user.id), text)
    THEN GeocoderResponses
    ELSE {[raised |-> TRUE, data |-> <<>>]}

\* main.py:194
TextMessage ==
    \E user \in Users, text \in Texts :
        \E response1, response2 \in ResponsesFor(user, text) :
            /\ Handle("handle_message", user, text,
                      handle_message(user_sessions, user, text, response1, response2))
            /\ pressed' = NoButton

\* The place buttons among the keyboards of the messages sent
PlaceButtonsSent ==
    UNION { KeysOf(sent[i]) : i \in {j \in 1..Len(sent) : sent[j].kind = "top_picks"} }

\* What a message asks the user for: a start location (main.py:129-132,
\* main.py:158), a choice on the way to a recommendation (main.py:95-101,
\* main.py:106-112, main.py:119-121), or something else
PromptOf(message) ==
    IF message.kind \in {"origin_prompt", "retry"} THEN "origin"
    ELSE IF message.kind \in {"mood_menu", "distance_menu", "top_picks"} THEN "menu"
    ELSE "other"

\* The handler returns and the application waits for the next update; what
\* it sent is now in the sender's chat
Return ==
    /\ event # NoEvent
    /\ request.call = 0
    /\ event' = NoEvent
    /\ before' = EmptyDict
    /\ sent' = <<>>
    /\ geocoded' = <<>>
    /\ raised' = "none"
    /\ pressed' = NoButton
    /\ shown' = [shown EXCEPT ![str(event.user)] = @ \cup PlaceButtonsSent]
    /\ last_prompt' = [last_prompt EXCEPT ![str(event.user)] =
                          IF Len(sent) = 0 THEN @ ELSE PromptOf(sent[Len(sent)])]
    /\ UNCHANGED <<user_sessions, request, handled>>

Next == StartCommand \/ HelpCommand \/ CallbackQuery \/ TextMessage \/ Return

Spec == Init /\ [][Next]_vars

-----------------------------------------------------------------------------
(* The same machine with the geocoder calls of handle_message as steps *)

\* main.py:194, a text that is answered without the geocoder
TextReply ==
    \E user \in Users, text \in Texts :
        /\ ~Geocodes(user_sessions, str(user.id), text)
        /\ \E response \in ResponsesFor(user, text) :
               Handle("handle_message", user, text,
                      handle_message(user_sessions, user, text, response, response))
        /\ pressed' = NoButton

\* main.py:134-147 and main.py:162-169: handle_message reads the session, sends
\* the notice and calls geocode_location for the first place
TextArrives ==
    \E user \in Users, text \in Texts :
        /\ Geocodes(user_sessions, str(user.id), text)
        /\ Idle
        /\ handled < MaxEvents
        /\ handled' = handled + 1
        /\ event' = [handler |-> "handle_message", user |-> user.id, payload |-> text]
        /\ before' = user_sessions
        /\ sent' = <<FindingLocations>>
        /\ geocoded' = <<>>
        /\ raised' = "none"
        /\ pressed' = NoButton
        /\ request' = [call |-> 1, user |-> user, text |-> text, answers |-> <<>>]
        /\ UNCHANGED <<user_sessions, shown, last_prompt>>

\* What the handler, having read the session in snapshot, writes to the store
\* at its end: main.py:156 assigns the sender's entry, nothing else is written
WriteBack(current, snapshot, outcome, user_id) ==
    IF outcome.sessions = snapshot THEN current
    ELSE Put(current, user_id, outcome.sessions[user_id])

\* main.py:43-50: requests.get returns or raises, after 5 seconds at the
\* latest.  The first answer lets the handler go on to its second call
\* (main.py:148, main.py:170), the second to its end (main.py:150-159,
\* main.py:172-180).
GeocoderAnswers ==
    \E response \in GeocoderResponses :
        /\ request.call # 0
        /\ IF request.call = 1
           THEN \E outcome \in {handle_message(before, request.user, request.text,
                                                response, response)} :
                    /\ request' = [request EXCEPT !.call = 2, !.answers = <<response>>]
                    /\ geocoded' = <<outcome.geocoded[1]>>
                    /\ UNCHANGED <<user_sessions, sent, raised>>
           ELSE \E outcome \in {handle_message(before, request.user, request.text,
                                                request.answers[1], response)} :
                    /\ request' = NoRequest
                    /\ geocoded' = outcome.geocoded
                    /\ user_sessions' = WriteBack(user_sessions, before, outcome,
                                                  str(request.user.id))
                    /\ sent' = outcome.sent
                    /\ raised' = outcome.raised
        /\ UNCHANGED <<event, before, pressed, shown, last_prompt, handled>>

NextIO ==
    StartCommand \/ HelpCommand \/ CallbackQuery \/ TextReply \/ TextArrives
    \/ GeocoderAnswers \/ Return

SpecIO == Init /\ [][NextIO]_vars

-----------------------------------------------------------------------------
(* Properties *)

\* The user whose update is being handled, as the key of user_sessions
Sender == str(event.user)

\* A user's session in a store; a user the store does not know holds nothing
SessionIn(sessions, user_id) == Get(sessions, user_id, EmptyDict)
SessionBefore == SessionIn(before, Sender)
SessionAfter == SessionIn(user_sessions, Sender)

SentKinds == [i \in 1..Len(sent) |-> sent[i].kind]
Links == {i \in 1..Len(sent) : sent[i].kind = "route_ready"}

\* The texts that, trimmed and lower-cased, are a greeting word
GreetingTexts == {text \in Texts : lower(strip(text)) \in {<<"h","i">>, <<"h","e","l","l","o">>, <<"h","e","y">>, <<"s","t","a","r","t">>}}

IsStartOrGreeting ==
    \/ event.handler = "start_command"
    \/ event.handler = "handle_message" /\ event.payload \in GreetingTexts

\* C1: a /start command or a greeting text, whatever the session held before
\* (a stored destination and awaiting_start included), leaves the sender's
\* session empty, is answered by the two-option mode-choice menu alone, and
\* makes no geocoder call.
C1_GreetingResets ==
    IsStartOrGreeting =>
        /\ Sender \in DOMAIN user_sessions
        /\ user_sessions[Sender] = EmptyDict
        /\ SentKinds = <<"welcome">>
        /\ Len(sent[1].keyboard) = 2
        /\ ButtonsOf(sent[1]) = {<<"m","o","d","e","_","d","i","r","e","c","t">>, <<"m","o","d","e","_","r","e","c","o","m","m","e","n","d">>}
        /\ geocoded = <<>>

\* A greeting with capitals and surrounding whitespace, sent while an origin was awaited
C1_Witness ==
    /\ event.handler = "handle_message"
    /\ event.payload = <<" "," ","H","e","y"," ","\n">>
    /\ Truthy(SessionBefore, "awaiting_start")
    /\ "destination" \in DOMAIN SessionBefore
    /\ user_sessions[Sender] = EmptyDict

\* The query string of a URL as its list of <<name, value>> pairs
UrlQuery(url) ==
    LET query == SubSeq(url, find(url, <<"?">>) + 1, Len(url))
        pairs == split(query, <<"&">>)
    IN  [i \in 1..Len(pairs) |->
            <<SubSeq(pairs[i], 1, find(pairs[i], <<"=">>) - 1),
              SubSeq(pairs[i], find(pairs[i], <<"=">>) + 1, Len(pairs[i]))>>]

\* "lat,lon"
LatLon(coords) == FormatFloat(coords[1]) \o <<",">> \o FormatFloat(coords[2])

\* C2: whenever a link is sent, two geocoder calls were made, the first for the
\* origin and the second for the destination named in the message (on the
\* menu-driven path: the typed text and the stored destination), both returned
\* a coordinate, the link's start pair is the first call's coordinate, its end
\* pair the second call's, and the identifier in it is the sender's.
C2_LinkCarriesGeocodedPairs ==
    \A i \in Links :
        /\ Len(geocoded) = 2
        /\ geocoded[1].result # None
        /\ geocoded[2].result # None
        /\ geocoded[1].place_name = sent[i].text[1]
        /\ geocoded[2].place_name = sent[i].text[2]
        /\ Truthy(SessionBefore, "awaiting_start") =>
                /\ geocoded[1].place_name = event.payload
                /\ geocoded[2].place_name = SessionBefore["destination"]
        /\ LET query == UrlQuery(sent[i].text[3])
           IN  /\ Len(query) = 3
               /\ query[1] = <<<<"s","t","a","r","t">>, LatLon(geocoded[1].result)>>
               /\ query[2] = <<<<"e","n","d">>, LatLon(geocoded[2].result)>>
               /\ query[3][2] = Sender

\* A link on the menu-driven path whose two coordinates differ, while the
\* other user holds a session of their own
C2_Witness ==
    /\ Links # {}
    /\ Truthy(SessionBefore, "awaiting_start")
    /\ geocoded[1].result # geocoded[2].result
    /\ \E other \in DOMAIN before : other # Sender /\ before[other] # EmptyDict

\* C3: after an update for which a link was sent, on either path, the sender's
\* session holds nothing.
C3_SessionClearedAfterLink ==
    Links # {} => SessionAfter = EmptyDict

\* C4: an awaiting_start user sends a text that is not a greeting and the
\* geocoder does not find both places: no link, the replies are the progress
\* note and the retry message (never the hint), both places were asked for, and
\* the session store is as it was, awaiting_start and destination included.
C4_FailedOriginKeepsSession ==
    ( /\ event.handler = "handle_message"
      /\ event.payload \notin GreetingTexts
      /\ Truthy(SessionBefore, "awaiting_start")
      /\ ~(Len(geocoded) = 2 /\ geocoded[1].result # None /\ geocoded[2].result # None) )
    =>
        /\ Links = {}
        /\ SentKinds = <<"finding", "retry">>
        /\ Len(geocoded) = 2
        /\ geocoded[1].place_name = event.payload
        /\ geocoded[2].place_name = SessionBefore["destination"]
        /\ user_sessions = before
        /\ Truthy(SessionAfter, "awaiting_start")
        /\ SessionAfter["destination"] = SessionBefore["destination"]

\* A "from X to Y" text sent while an origin is awaited, the origin not found
C4_Witness ==
    /\ event.handler = "handle_message"
    /\ event.payload \in RouteTexts
    /\ Truthy(SessionBefore, "awaiting_start")
    /\ geocoded[1].result = None
    /\ geocoded[2].result # None
    /\ SentKinds = <<"finding", "retry">>
    /\ Truthy(SessionAfter, "awaiting_start")

\* The place buttons: callback data and the index each stands for
PlaceButtons == {<<<<"p","l","a","c","e","_">> \o str(i), i>> : i \in 0..2}

\* C5: a place selection whose index i is within the stored recommendations
\* sets destination to the name of recommendation i (counted from 0) and
\* awaiting_start to true, leaves every other key of the session and every
\* other session alone, and is answered by the origin prompt naming that place.
C5_PlaceSelectionStoresDestination ==
    \A button \in PlaceButtons :
        LET recs == Get(SessionBefore, "recommendations", <<>>)
            i == button[2]
        IN  (event.handler = "handle_callback" /\ event.payload = button[1] /\ i < Len(recs)) =>
                /\ DOMAIN SessionAfter = DOMAIN SessionBefore \cup {"destination", "awaiting_start"}
                /\ SessionAfter["destination"] = recs[i + 1].name
                /\ SessionAfter["awaiting_start"] = TRUE
                /\ \A k \in DOMAIN SessionBefore \ {"destination", "awaiting_start"} :
                        SessionAfter[k] = SessionBefore[k]
                /\ \A other \in DOMAIN user_sessions \ {Sender} :
                        other \in DOMAIN before /\ user_sessions[other] = before[other]
                /\ SentKinds = <<"origin_prompt">>
                /\ sent[1].text = <<recs[i + 1].name>>

\* The third place of a list chosen while a mood is recorded
C5_Witness ==
    /\ event.handler = "handle_callback"
    /\ event.payload = <<"p","l","a","c","e","_","2">>
    /\ "mood" \in DOMAIN SessionBefore
    /\ Len(Get(SessionBefore, "recommendations", <<>>)) = 3
    /\ SessionAfter["destination"] = SessionBefore["recommendations"][3].name

MoodButtons == {<<<<"m","o","o","d","_">> \o m, m>> : m \in {<<"n","a","t","u","r","e">>, <<"f","o","o","d">>, <<"v","i","e","w","s">>}}
DistanceButtons == {<<"d","i","s","t","_","s","h","o","r","t">>, <<"d","i","s","t","_","m","e","d","i","u","m">>, <<"d","i","s","t","_","l","o","n","g">>}

\* C6: a mood selection m is answered by the three-option distance menu and
\* records m; a distance selection stores, in order, the fixed three-entry list
\* of the mood the session records at that moment, and the "nature" list when
\* it records none.
C6_MoodThenDistance ==
    /\ \A button \in MoodButtons :
        (event.handler = "handle_callback" /\ event.payload = button[1]) =>
            /\ SentKinds = <<"distance_menu">>
            /\ Len(sent[1].keyboard) = 3
            /\ ButtonsOf(sent[1]) = DistanceButtons
            /\ SessionAfter["mood"] = button[2]
    /\ (event.handler = "handle_callback" /\ event.payload \in DistanceButtons) =>
            LET mood == Get(SessionBefore, "mood", <<"n","a","t","u","r","e">>)
            IN  /\ SessionAfter["recommendations"] = FALLBACK_PLACES[mood]
                /\ Len(SessionAfter["recommendations"]) = 3

\* A distance chosen with "food" recorded
C6_Witness ==
    /\ event.handler = "handle_callback"
    /\ event.payload = <<"d","i","s","t","_","m","e","d","i","u","m">>
    /\ Get(SessionBefore, "mood", <<>>) = <<"f","o","o","d">>
    /\ SessionAfter["recommendations"][1].name = <<"T","i","o","n","g"," ","B","a","h","r","u">>

\* "from X to Y" texts with the X and Y they name, lower-cased
RouteCases == {<<<<"F","r","o","m"," ">> \o x \o <<" ","t","o"," ">> \o y, lower(x), lower(y)>> : x, y \in TypedPlaces}

\* C7: a user who is not awaiting a start location sends "from X to Y": the
\* geocoder is asked for X and then for Y, and a link is sent when both are found.
C7_RouteTextNamesBothPlaces ==
    \A case \in RouteCases :
        ( /\ event.handler = "handle_message"
          /\ event.payload = case[1]
          /\ ~Truthy(SessionBefore, "awaiting_start") )
        =>
            /\ Len(geocoded) = 2
            /\ geocoded[1].place_name = case[2]
            /\ geocoded[2].place_name = case[3]
            /\ (geocoded[1].result # None /\ geocoded[2].result # None) => Links # {}

\* The texts that are no greeting and do not contain both "from" and "to"
PlainTexts ==
    {text \in Texts \ GreetingTexts :
        ~(contains(lower(text), <<"f","r","o","m">>) /\ contains(lower(text), <<"t","o">>))}

\* C8: a user with no session or an empty one sends a text that is no greeting
\* and does not contain both "from" and "to": the one reply is the hint, no
\* geocoder call is made and the session store is as it was.
C8_PlainTextGetsHint ==
    ( /\ event.handler = "handle_message"
      /\ event.payload \in PlainTexts
      /\ SessionBefore = EmptyDict )
    =>
        /\ SentKinds = <<"hint">>
        /\ geocoded = <<>>
        /\ user_sessions = before

\* A text containing "to" but not "from", from a user the store does not know
C8_Witness ==
    /\ event.handler = "handle_message"
    /\ event.payload = <<"B","i","s","h","a","n"," ","t","o"," ","B","e","d","o","k">>
    /\ Sender \notin DOMAIN before
    /\ SentKinds = <<"hint">>

\* C9: a session that holds recommendations holds the fixed list of the mood
\* it records (of "nature" when it records none).
C9_RecommendationsMatchMood ==
    \A u \in DOMAIN user_sessions :
        "recommendations" \in DOMAIN user_sessions[u] =>
            user_sessions[u]["recommendations"]
                = FALLBACK_PLACES[Get(user_sessions[u], "mood", <<"n","a","t","u","r","e">>)]

\* C10: a session that holds a destination holds recommendations, and the
\* destination is the name of one of them.
C10_DestinationAmongRecommendations ==
    \A u \in DOMAIN user_sessions :
        "destination" \in DOMAIN user_sessions[u] =>
            /\ "recommendations" \in DOMAIN user_sessions[u]
            /\ \E i \in 1..Len(user_sessions[u]["recommendations"]) :
                    user_sessions[u]["recommendations"][i].name
                        = user_sessions[u]["destination"]

\* The user record of the update being handled
EventUser == CHOOSE user \in Users : user.id = event.user

\* A store cut down to one user's session
Alone(sessions, user_id) == [u \in DOMAIN sessions \cap {user_id} |-> sessions[u]]

\* An outcome agrees with what was observed for the sender
Observed(outcome) ==
    /\ outcome.sent = sent
    /\ outcome.geocoded = geocoded
    /\ outcome.raised = raised
    /\ Alone(outcome.sessions, Sender) = Alone(user_sessions, Sender)

\* For each result geocode_location can give, a response that gives it
Results == {geocode_location(<<>>, response) : response \in GeocoderResponses}
ResponseGiving ==
    [result \in Results |->
        CHOOSE response \in GeocoderResponses : geocode_location(<<>>, response) = result]

\* The response behind the i-th geocoder call observed, any response when
\* there was no such call
ResponseBehind(i) ==
    IF i <= Len(geocoded) THEN ResponseGiving[geocoded[i].result] ELSE ResponseGiving[None]

\* What was observed is what the handler of the update in hand yields on a
\* store that knows no other user, the geocoder answering as it did
ObservedAlone ==
    LET own == Alone(before, Sender)
    IN  IF event.handler = "start_command" THEN Observed(start_command(own, EventUser))
        ELSE IF event.handler = "help_command" THEN Observed(help_command(own, EventUser))
        ELSE IF event.handler = "handle_callback"
             THEN Observed(handle_callback(own, EventUser, event.payload))
        ELSE Observed(handle_message(own, EventUser, event.payload,
                                     ResponseBehind(1), ResponseBehind(2)))

\* C11: handling an update of user u leaves the session of every other user as
\* it was, and what u is sent, the geocoder calls made and u's session
\* afterwards are what the same update yields on a store holding u's session
\* alone.
C11_OtherSessionsUntouched ==
    event # NoEvent =>
        /\ \A v \in UserIds \ {Sender} :
                /\ v \in DOMAIN user_sessions <=> v \in DOMAIN before
                /\ v \in DOMAIN before => user_sessions[v] = before[v]
        /\ ObservedAlone

\* A link sent to one user on the direct path while the other user is awaiting
\* a start location
C11_Witness ==
    /\ Links # {}
    /\ ~Truthy(SessionBefore, "awaiting_start")
    /\ \E other \in DOMAIN before \ {Sender} :
            /\ Truthy(before[other], "awaiting_start")
            /\ user_sessions[other] = before[other]

\* The base address and the parameter names of a URL
UrlBase(url) == SubSeq(url, 1, find(url, <<"?">>) - 1)
UrlNames(url) == [i \in 1..Len(UrlQuery(url)) |-> UrlQuery(url)[i][1]]

\* C12, as the specification states it: every link is the base address followed
\* by the parameters start, end and user, in that order.
C12_LinkParametersStartEndUser ==
    \A i \in Links :
        /\ UrlBase(sent[i].text[3]) = APP_URL
        /\ UrlNames(sent[i].text[3]) = <<<<"s","t","a","r","t">>, <<"e","n","d">>, <<"u","s","e","r">>>>

\* C12, amended: every link, on either path, is the base address followed by
\* start=<lat>,<lon>, end=<lat>,<lon> and tg=<user id>, in that order.
C12_LinkParametersStartEndTg ==
    \A i \in Links :
        /\ UrlBase(sent[i].text[3]) = APP_URL
        /\ UrlQuery(sent[i].text[3]) =
                << <<<<"s","t","a","r","t">>, LatLon(geocoded[1].result)>>,
                   <<<<"e","n","d">>, LatLon(geocoded[2].result)>>,
                   <<<<"t","g">>, Sender>> >>

\* A link on the direct path, sent to a user the store does not know
C12_Witness ==
    /\ Links # {}
    /\ Sender \notin DOMAIN before
    /\ event.payload \in RouteTexts

\* Place selections, from a keyboard or not: callback data and index
PlaceSelections == PlaceButtons \cup {<<<<"p","l","a","c","e","_","3">>, 3>>, <<<<"p","l","a","c","e","_","-","1">>, 0 - 1>>}

\* C13: a place selection whose index is below 0, or at or above the length of
\* the stored recommendations (any index when none are stored), is ignored:
\* the handler returns without an exception, the sender's session holds what
\* it held, and nothing is sent.
C13_OutOfRangeSelectionIgnored ==
    \A selection \in PlaceSelections :
        LET recs == Get(SessionBefore, "recommendations", <<>>)
            i == selection[2]
        IN  ( /\ event.handler = "handle_callback"
              /\ event.payload = selection[1]
              /\ (i < 0 \/ i >= Len(recs)) )
            =>
                /\ raised = "none"
                /\ SessionAfter = SessionBefore
                /\ sent = <<>>

\* The texts with both "from" and "to" in them
FromToTexts ==
    {text \in Texts : contains(lower(text), <<"f","r","o","m">>) /\ contains(lower(text), <<"t","o">>)}

\* Those of them with nothing after the "to", or nothing before it but "from"
MalformedTexts == {<<"f","r","o","m"," ","B","i","s","h","a","n"," ","t","o"," ">>, <<"t","o"," ","B","i","s","h","a","n"," ","f","r","o","m">>}

\* C14: a user who is not awaiting a start location sends a text with "from"
\* and "to" in it.  When the origin or the destination cut out of it is empty,
\* or the geocoder does not find one of them, no link is sent, the last
\* message is the hint, and the session store is as it was.
C14_FailedRouteTextLeavesNoTrace ==
    ( /\ event.handler = "handle_message"
      /\ event.payload \in FromToTexts
      /\ ~Truthy(SessionBefore, "awaiting_start")
      /\ \/ event.payload \in MalformedTexts
         \/ \E i \in DOMAIN geocoded : geocoded[i].result = None )
    =>
        /\ Links = {}
        /\ SentKinds \in {<<"hint">>, <<"finding", "hint">>}
        /\ event.payload \in MalformedTexts => geocoded = <<>> /\ SentKinds = <<"hint">>
        /\ user_sessions = before

\* "from X to Y" sent by a user who holds recommendations and awaits no
\* origin; X is found and Y is not
C14_Witness ==
    /\ event.handler = "handle_message"
    /\ event.payload \in RouteTexts
    /\ "recommendations" \in DOMAIN SessionBefore
    /\ ~Truthy(SessionBefore, "awaiting_start")
    /\ Len(geocoded) = 2
    /\ geocoded[1].result # None
    /\ geocoded[2].result = None
    /\ SentKinds = <<"finding", "hint">>

\* C15: a user presses a button of a place menu that was shown to them, and
\* the selection sets the destination: the destination stored is the place
\* name on the button pressed.
C15_DestinationIsButtonLabel ==
    ( /\ event.handler = "handle_callback"
      /\ pressed \in shown[Sender]
      /\ SentKinds = <<"origin_prompt">> )
    =>
        SessionAfter["destination"] = pressed.text

\* C16: whichever of the three distance buttons is pressed in a session state,
\* the store afterwards and the list sent are the same; the session gains or
\* replaces "recommendations" and nothing else, so the distance is not in it.
C16_DistanceHasNoEffect ==
    ( /\ event.handler = "handle_callback"
      /\ event.payload \in DistanceButtons )
    =>
        /\ \A data \in DistanceButtons :
                LET outcome == handle_callback(before, EventUser, data)
                IN  /\ outcome.sessions = user_sessions
                    /\ outcome.sent = sent
                    /\ outcome.geocoded = geocoded
        /\ DOMAIN SessionAfter = DOMAIN SessionBefore \cup {"recommendations"}
        /\ \A key \in DOMAIN SessionBefore \ {"recommendations"} :
                SessionAfter[key] = SessionBefore[key]
        /\ SessionAfter["recommendations"]
                = FALLBACK_PLACES[Get(SessionBefore, "mood", <<"n","a","t","u","r","e">>)]

\* "40+ min" pressed in a session that holds a mood, a destination and an
\* earlier list
C16_Witness ==
    /\ event.handler = "handle_callback"
    /\ event.payload = <<"d","i","s","t","_","l","o","n","g">>
    /\ Get(SessionBefore, "mood", <<>>) = <<"v","i","e","w","s">>
    /\ "destination" \in DOMAIN SessionBefore
    /\ SentKinds = <<"top_picks">>
    /\ SessionAfter["recommendations"] # SessionBefore["recommendations"]

\* C17: while the geocoder request made for one user's message is outstanding,
\* an update of another user can be handled: its /start can be taken up.
C17_OthersHandledWhileGeocoding ==
    ( /\ request.call # 0
      /\ handled < MaxEvents )
    =>
        \E user \in Users :
            /\ user.id # request.user.id
            /\ ENABLED ( /\ Handle("start_command", user, <<>>,
                                    start_command(user_sessions, user))
                         /\ pressed' = NoButton )

\* C18: while a message handler waits on the geocoder, the update in hand is
\* still that message and the store is the one the handler read at its start:
\* no other update, of the same user or another, has been handled meanwhile.
\* When the handler ends, a link sent to a user who was awaiting a start
\* location leaves that user's session empty and the rest of the store as
\* read; without a link the store is as read.
C18_OneEventAtATime ==
    /\ request.call # 0 =>
            /\ event.handler = "handle_message"
            /\ event.user = request.user.id
            /\ event.payload = request.text
            /\ user_sessions = before
    /\ ( /\ request.call = 0
         /\ event.handler = "handle_message"
         /\ event.payload \notin GreetingTexts )
       =>
            user_sessions =
                IF Links # {} /\ Truthy(SessionBefore, "awaiting_start")
                THEN Put(before, Sender, EmptyDict)
                ELSE before

\* The second geocoder call of a handler is outstanding; the sender was
\* awaiting a start location and the other user holds a session
C18_Witness ==
    /\ request.call = 2
    /\ Truthy(SessionBefore, "awaiting_start")
    /\ geocoded[1].result # None
    /\ DOMAIN user_sessions = UserIds

\* The names of the places of the static table
TableNames == {FALLBACK_PLACES[m][i].name : m \in Moods, i \in 1..3}

\* C19: a session with awaiting_start set holds a destination, which is the
\* name of a place of the static table (so not empty); a session holds a
\* destination exactly when it holds awaiting_start; and the origin-capture
\* step asks the geocoder for such a name as its destination.
C19_AwaitingHasDestination ==
    /\ \A u \in DOMAIN user_sessions :
            /\ Truthy(user_sessions[u], "awaiting_start") =>
                    /\ "destination" \in DOMAIN user_sessions[u]
                    /\ Len(user_sessions[u]["destination"]) > 0
                    /\ user_sessions[u]["destination"] \in TableNames
            /\ "destination" \in DOMAIN user_sessions[u]
                    <=> "awaiting_start" \in DOMAIN user_sessions[u]
    /\ ( /\ event.handler = "handle_message"
         /\ event.payload \notin GreetingTexts
         /\ Truthy(SessionBefore, "awaiting_start") )
       =>
            /\ Len(geocoded) = 2
            /\ geocoded[2].place_name \in TableNames

\* "I know where I'm going" pressed by a user who was awaiting a start
\* location: destination and awaiting_start are both gone
C19_Witness ==
    /\ event.handler = "handle_callback"
    /\ event.payload = <<"m","o","d","e","_","d","i","r","e","c","t">>
    /\ Truthy(SessionBefore, "awaiting_start")
    /\ SessionBefore["destination"] \in TableNames
    /\ "destination" \notin DOMAIN SessionAfter
    /\ "awaiting_start" \notin DOMAIN SessionAfter

\* C20: a user whose last message from the bot was a menu on the way to a
\* recommendation (moods, distances or places) sends a text that is no
\* greeting: the text is not geocoded as the origin for a stored destination.
C20_TextAfterMenuIsNoOrigin ==
    ( /\ event.handler = "handle_message"
      /\ event.payload \notin GreetingTexts
      /\ last_prompt[Sender] = "menu" )
    =>
        ~( /\ Len(geocoded) = 2
           /\ geocoded[1].place_name = event.payload
           /\ "destination" \in DOMAIN SessionBefore
           /\ geocoded[2].place_name = SessionBefore["destination"] )

====
